---- MODULE Spec2Model ----
(***************************************************************************)
(* Model of src/monitor.py (SeoulMetroMonitor): one run of the script is   *)
(* main -> fetch_board_content -> parse_board_posts -> the filter/notify   *)
(* loop of monitor_posts.  The scheduler starts the script again and       *)
(* again; the wall clock and the board belong to the environment.          *)
(*                                                                         *)
(* Text (a Python str) is a sequence of Unicode code points.  An optional  *)
(* value is a sequence of length at most one: None is << >> and a present  *)
(* value x is << x >>.                                                     *)
(***************************************************************************)
EXTENDS Integers, Sequences, FiniteSets, TLC

\* ------------------------------------------------------------------ bounds
\* Longest generated title handed to check_keywords.
MaxTitleLen == 3
\* Most cells of a generated row handed to the row parser.
MaxCells == 3
\* Most rows of a board served to a run.
MaxRows == 2
\* Number of midnights the clock may pass.
MaxDays == 1

\* ------------------------------------------------------------ Python values
None == << >>

Some(x) == << x >>

\* A test that only asks whether the value is present.
TruthyIfPresent(opt) == opt # None

\* Python truthiness of an optional text: None and "" are both falsy.
Truthy(opt) == opt # None /\ opt[1] # << >>

\* Python truthiness of an optional response body: None and "" are both falsy.
HasContent(html) == html # None /\ ~html[1].blank

\* ------------------------------------------------------------ str operations
\* Python `sub in s`.
Contains(s, sub) ==
    \E i \in 0..(Len(s) - Len(sub)) : SubSeq(s, i + 1, i + Len(sub)) = sub

\* str.startswith
StartsWith(s, p) == Len(p) <= Len(s) /\ SubSeq(s, 1, Len(p)) = p

\* str.lower: A-Z fold to a-z; Hangul, digits and punctuation have no case.
Lower(s) == [i \in 1..Len(s) |-> IF s[i] \in 65..90 THEN s[i] + 32 ELSE s[i]]

\* str.isdigit: non-empty and every character a digit.
IsDigit(s) == Len(s) > 0 /\ \A i \in 1..Len(s) : s[i] \in 48..57

\* Characters str.strip removes.
IsSpace(c) == c \in {9, 10, 11, 12, 13, 32}

\* str.strip
Strip(s) ==
    LET keep == {i \in 1..Len(s) : ~IsSpace(s[i])}
        lo == CHOOSE i \in keep : \A j \in keep : i <= j
        hi == CHOOSE i \in keep : \A j \in keep : j <= i
    IN  IF keep = {} THEN << >> ELSE SubSeq(s, lo, hi)

\* All sequences over S of length at most n.
RECURSIVE SeqsUpTo(_, _)
SeqsUpTo(S, n) ==
    IF n = 0 THEN {<< >>}
    ELSE LET shorter == SeqsUpTo(S, n - 1)
         IN  shorter \cup {Append(s, c) : s \in shorter, c \in S}

\* ------------------------------------------------------------------- texts
\* "특정 장애인 단체 집회시위"
kwSpecific ==
    <<53945, 51221, 32, 51109, 50528, 51064, 32, 45800, 52404, 32, 51665, 54924, 49884, 50948>>

\* "장애인"
kwDisabled == <<51109, 50528, 51064>>

\* "집회"
kwRally == <<51665, 54924>>

\* "시위"
kwProtest == <<49884, 50948>>

\* The keyword list with "집회" moved to the front.
keywordsRallyFirst == <<kwRally, kwSpecific, kwDisabled, kwProtest>>

\* self.keywords
keywords == <<kwSpecific, kwDisabled, kwRally, kwProtest>>

\* "오늘의 장애인 집회 관련 공지"
titleToday ==
    <<50724, 45720, 51032, 32, 51109, 50528, 51064, 32, 51665, 54924, 32, 44288, 47144, 32, 44277, 51648>>

\* "일반 공지사항"
titlePlain == <<51068, 48152, 32, 44277, 51648, 49324, 54637>>

\* "장애인 집회시위 안내"
titleGuide == <<51109, 50528, 51064, 32, 51665, 54924, 49884, 50948, 32, 50504, 45236>>

\* "집회 및 시위 안내"
titleRallyProtest == <<51665, 54924, 32, 48143, 32, 49884, 50948, 32, 50504, 45236>>

\* "RALLY Notice"
titleUpper == <<82, 65, 76, 76, 89, 32, 78, 111, 116, 105, 99, 101>>

\* --------------------------------------------------------- check_keywords
\* A scan that reports the last keyword of the list found in the title.
KeywordScanLastMatch(title_lower, i) ==
    LET hits == {k \in i..Len(keywords) : Contains(title_lower, Lower(keywords[k]))}
    IN  IF hits = {} THEN <<FALSE, None>>
        ELSE <<TRUE, Some(keywords[CHOOSE k \in hits : \A j \in hits : j <= k])>>

RECURSIVE KeywordScan(_, _)
\* The for loop of check_keywords from the i-th keyword on.
KeywordScan(title_lower, i) ==
    IF i > Len(keywords) THEN <<FALSE, None>>
    ELSE IF Contains(title_lower, Lower(keywords[i])) THEN <<TRUE, Some(keywords[i])>>
    ELSE KeywordScan(title_lower, i + 1)

check_keywords(title) == KeywordScan(Lower(title), 1)

\* ------------------------------------------------------------------- clock
\* The date the model's clock starts from; clock counts the midnights since.
Epoch == [y |-> 2024, m |-> 4, d |-> 30]

IsLeap(y) == (y % 4 = 0 /\ y % 100 # 0) \/ y % 400 = 0

DaysInMonth(y, m) ==
    IF m = 2 THEN (IF IsLeap(y) THEN 29 ELSE 28)
    ELSE IF m \in {4, 6, 9, 11} THEN 30 ELSE 31

NextDay(t) ==
    IF t.d < DaysInMonth(t.y, t.m) THEN [t EXCEPT !.d = t.d + 1]
    ELSE IF t.m < 12 THEN [t EXCEPT !.m = t.m + 1, !.d = 1]
    ELSE [y |-> t.y + 1, m |-> 1, d |-> 1]

RECURSIVE DateOf(_)
\* datetime.now().date() when the clock reads n.
DateOf(n) == IF n = 0 THEN Epoch ELSE NextDay(DateOf(n - 1))

\* Zero-padded decimal of n in w digits (%Y is 4 wide, %m and %d are 2 wide).
RECURSIVE Pad(_, _)
Pad(n, w) == IF w = 0 THEN << >> ELSE Append(Pad(n \div 10, w - 1), 48 + (n % 10))

\* strftime with the fields joined by the character sep.
FormatDate(t, sep) == Pad(t.y, 4) \o <<sep>> \o Pad(t.m, 2) \o <<sep>> \o Pad(t.d, 2)

\* datetime.now().strftime('%Y-%m-%d') when the clock reads n.
Today(n) == FormatDate(DateOf(n), 45)

\* ------------------------------------------------------------ is_today_post
\* A date test that lets every post through.
is_today_post_any(date_str, n) == TRUE

is_today_post(date_str, n) == Contains(date_str, Today(n))

\* ------------------------------------------------------------------- markup
\* A cell (td or th) is [frags, href]: frags are its text nodes in document
\* order, href is the href of its first anchor (None: no anchor, or an anchor
\* without href).  A row (tr) is [sel, cells]: sel is the set of selectors of
\* possible_selectors that match the row, cells its td/th in document order.
\* A response body is [blank, rows]: blank says the text is the empty string.

\* "1"
txtIndex == <<49>>

\* "123456"
txtNumber == <<49, 50, 51, 52, 53, 54>>

\* " 장애인 집회시위 안내 "
txtGuidePadded ==
    <<32, 51109, 50528, 51064, 32, 51665, 54924, 49884, 50948, 32, 50504, 45236, 32>>

\* "행사 안내문입니다"
txtEvent == <<54665, 49324, 32, 50504, 45236, 47928, 51077, 45768, 45796>>

\* "시위 일정 변경 - 안내"
txtProtestDash == <<49884, 50948, 32, 51068, 51221, 32, 48320, 44221, 32, 45, 32, 50504, 45236>>

\* "공지"
txtShort == <<44277, 51648>>

\* "2024-05-01"
txtDateDash == <<50, 48, 50, 52, 45, 48, 53, 45, 48, 49>>

\* "2024.05.01"
txtDateDot == <<50, 48, 50, 52, 46, 48, 53, 46, 48, 49>>

\* "2024/05/01"
txtDateSlash == <<50, 48, 50, 52, 47, 48, 53, 47, 48, 49>>

\* "05-01"
txtDateShort == <<48, 53, 45, 48, 49>>

\* "2024-"
txtDateHead == <<50, 48, 50, 52, 45>>

\* "  "
txtBlank == <<32, 32>>

\* "/kr/view.do?id=7"
hrefRelative == <<47, 107, 114, 47, 118, 105, 101, 119, 46, 100, 111, 63, 105, 100, 61, 55>>

\* "https://example.org/n/7"
hrefAbsolute ==
    <<104, 116, 116, 112, 115, 58, 47, 47, 101, 120, 97, 109, 112, 108, 101, 46, 111, 114, 103, 47, 110, 47, 55>>

\* "http"
httpPrefix == <<104, 116, 116, 112>>

\* "http://www.seoulmetro.co.kr"
siteOrigin ==
    <<104, 116, 116, 112, 58, 47, 47, 119, 119, 119, 46, 115, 101, 111, 117, 108, 109, 101, 116, 114, 111, 46, 99, 111, 46, 107, 114>>

PlainCell(text) == [frags |-> <<text>>, href |-> None]

RECURSIVE JoinStripped(_, _)
\* The stripped, non-empty text nodes from the i-th on, joined by "".
JoinStripped(frags, i) ==
    IF i > Len(frags) THEN << >> ELSE Strip(frags[i]) \o JoinStripped(frags, i + 1)

\* cell.get_text(strip=True)
get_text(cell) == JoinStripped(cell.frags, 1)

\* The link of the title cell.
LinkOf(cell) ==
    IF Truthy(cell.href)
    THEN (IF ~StartsWith(cell.href[1], httpPrefix) THEN siteOrigin \o cell.href[1]
          ELSE cell.href[1])
    ELSE << >>

\* ------------------------------------------------------- parse_board_posts
possible_selectors == <<"table tr", ".board-list tr", "#board-list tr", "tbody tr">>

\* soup.select(selector), in document order.
Select(rows, selector) == SelectSeq(rows, LAMBDA r : selector \in r.sel)

RECURSIVE TrySelectors(_, _)
\* The selector loop from the i-th selector on, then the find_all('tr') fallback.
TrySelectors(rows, i) ==
    IF i > Len(possible_selectors) THEN rows
    ELSE IF Select(rows, possible_selectors[i]) # << >> THEN Select(rows, possible_selectors[i])
    ELSE TrySelectors(rows, i + 1)

\* The candidate rows of a document.
CandidateRows(body) == TrySelectors(body.rows, 1)

\* A title test that leaves out "not cell_text.isdigit()".
LooksLikeTitleAnyText(cell_text) == Len(cell_text) > 5

\* "if len(cell_text) > 5 and not cell_text.isdigit()"
LooksLikeTitle(cell_text) == Len(cell_text) > 5 /\ ~IsDigit(cell_text)

\* "if any(char in cell_text for char in ['-', '.', '/'])" and "len(cell_text) >= 8"
LooksLikeDate(cell_text) ==
    (\E i \in 1..Len(cell_text) : cell_text[i] \in {45, 46, 47}) /\ Len(cell_text) >= 8

RECURSIVE TitleScan(_, _)
\* The title loop over cells from the i-th on: the title and link it leaves.
TitleScan(cells, i) ==
    IF i > Len(cells) THEN [title |-> << >>, link |-> << >>]
    ELSE IF LooksLikeTitle(get_text(cells[i]))
         THEN [title |-> get_text(cells[i]), link |-> LinkOf(cells[i])]
    ELSE TitleScan(cells, i + 1)

\* A date scan in document order instead of reversed(cells).
DateScanForward(cells, i) ==
    LET dated == {k \in 1..i : LooksLikeDate(get_text(cells[k]))}
    IN  IF dated = {} THEN << >>
        ELSE get_text(cells[CHOOSE k \in dated : \A j \in dated : k <= j])

RECURSIVE DateScan(_, _)
\* The date loop over reversed(cells) from the i-th cell down: the date_str it leaves.
DateScan(cells, i) ==
    IF i < 1 THEN << >>
    ELSE IF LooksLikeDate(get_text(cells[i])) THEN get_text(cells[i])
    ELSE DateScan(cells, i - 1)

\* A row parser without the "if not date_str" default.
ParseRowNoDefault(cells, n) ==
    IF Len(cells) >= 3
    THEN LET found == TitleScan(cells, 1)
         IN  IF found.title = << >> THEN << >>
             ELSE << [title |-> found.title, date |-> DateScan(cells, Len(cells)),
                      link |-> found.link] >>
    ELSE << >>

\* The body of "for row in rows": the posts this row appends, the clock reading n.
ParseRow(cells, n) ==
    IF Len(cells) >= 3
    THEN LET found == TitleScan(cells, 1)
             scanned == DateScan(cells, Len(cells))
             date_str == IF scanned = << >> THEN Today(n) ELSE scanned
         IN  IF found.title = << >> THEN << >>
             ELSE << [title |-> found.title, date |-> date_str, link |-> found.link] >>
    ELSE << >>

RECURSIVE ParseRows(_, _, _)
\* "for row in rows" from the i-th row on, the clock reading n throughout.
ParseRows(rs, i, n) ==
    IF i > Len(rs) THEN << >> ELSE ParseRow(rs[i].cells, n) \o ParseRows(rs, i + 1, n)

\* parse_board_posts(html_content) called while the clock reads n.
parse_board_posts(html, n) ==
    IF ~HasContent(html) THEN << >> ELSE ParseRows(CandidateRows(html[1]), 1, n)

\* ----------------------------------------------------------------- payload
\* "키워드 '"
msgHead == <<53412, 50892, 46300, 32, 39>>

\* "' 매칭: "
msgMid == <<39, 32, 47588, 52845, 58, 32>>

\* The JSON body send_webhook posts, the clock reading n (timestamp: its date part).
Payload(post_info, keyword, n) ==
    [title |-> post_info.title,
     date |-> post_info.date,
     link |-> post_info.link,
     keyword |-> keyword,
     message |-> msgHead \o keyword \o msgMid \o post_info.title,
     timestamp |-> Today(n)]

\* ------------------------------------------------------------------ inputs
\* Values of the environment variable WEBHOOK_URL: unset, empty, set.
EnvValues == {None, Some(<< >>), Some(hrefAbsolute)}

\* Rows a served board is made of.
InTable(cells) == [sel |-> {"table tr", "tbody tr"}, cells |-> cells]

BoardRows ==
    { InTable(<<PlainCell(txtIndex), PlainCell(txtGuidePadded), PlainCell(txtDateDash)>>),
      InTable(<<PlainCell(txtIndex), PlainCell(txtEvent), PlainCell(txtDateDash)>>),
      InTable(<<PlainCell(txtIndex), [frags |-> <<txtGuidePadded>>, href |-> Some(hrefRelative)],
                PlainCell(txtShort)>>),
      InTable(<<PlainCell(txtIndex), PlainCell(txtGuidePadded), PlainCell(txtDateDot)>>),
      [sel |-> {}, cells |-> <<PlainCell(txtIndex), PlainCell(txtGuidePadded), PlainCell(txtDateSlash)>>] }

\* Response bodies the board serves: the empty string, or markup with up to MaxRows rows.
Boards ==
    {[blank |-> TRUE, rows |-> << >>]}
        \cup {[blank |-> FALSE, rows |-> rs] : rs \in SeqsUpTo(BoardRows, MaxRows)}

\* ------------------------------------------------------------------- state
VARIABLES
    pc,                  \* where the script is: off, main, fetch, parse, rows, loop, send, exited
    clock,               \* midnights passed since Epoch
    board,               \* the body the board serves now
    environ,             \* WEBHOOK_URL of the current process
    prev,                \* what the previous process fetched and posted, if it began
                         \* on this date and fetched the board as it is now
    webhook_url,         \* self.webhook_url
    html_content,        \* monitor_posts: html_content
    rows,                \* parse_board_posts: rows
    row_i,               \* parse_board_posts: position of "for row in rows"
    posts,               \* parse_board_posts: posts, then monitor_posts: posts
    origin,              \* for each post: the row it came from and the clock then
    post_i,              \* monitor_posts: position of "for post in posts"
    matched_keyword,     \* monitor_posts: matched_keyword
    notifications_sent,  \* monitor_posts: notifications_sent
    today_posts_count,   \* monitor_posts: today_posts_count
    exit_code,           \* the process's exit code, once it has exited
    began,               \* clock when the process started
    entered,             \* monitor_posts was called
    gets,                \* requests.get calls of this process
    parsed,              \* parse_board_posts was called
    checked,             \* is_today_post calls: post index and clock
    matched,             \* check_keywords calls: post index and result
    posted,              \* requests.post calls: post index, URL, payload
    arg,                 \* argument of a function called on its own
    ret                  \* its return value

vars ==
    <<pc, clock, board, environ, prev, webhook_url, html_content, rows, row_i, posts, origin,
      post_i, matched_keyword, notifications_sent, today_posts_count, exit_code, began,
      entered, gets, parsed, checked, matched, posted, arg, ret>>

envVars == <<clock, board, arg, ret>>

procVars ==
    <<webhook_url, html_content, rows, row_i, posts, origin, post_i, matched_keyword,
      notifications_sent, today_posts_count, exit_code, entered, gets, parsed, checked,
      matched, posted>>

Init ==
    /\ pc = "off"
    /\ clock \in 0..1
    /\ board \in Boards
    /\ environ = None
    /\ prev = None
    /\ began = 0
    /\ webhook_url = None
    /\ html_content = None
    /\ rows = << >>
    /\ row_i = 1
    /\ posts = << >>
    /\ origin = << >>
    /\ post_i = 1
    /\ matched_keyword = None
    /\ notifications_sent = 0
    /\ today_posts_count = 0
    /\ exit_code = None
    /\ entered = FALSE
    /\ gets = 0
    /\ parsed = FALSE
    /\ checked = << >>
    /\ matched = << >>
    /\ posted = << >>
    /\ arg = << >>
    /\ ret = << >>

\* What a process that fetched the board leaves behind: what it fetched, when it began,
\* the posts and keywords it notified, and how many POSTs were answered 200.
Notified(ps) ==
    [k \in 1..Len(ps) |->
        [title |-> ps[k].payload.title, date |-> ps[k].payload.date,
         link |-> ps[k].payload.link, keyword |-> ps[k].payload.keyword]]

Summary ==
    [html_content |-> html_content, began |-> began, notified |-> Notified(posted),
     sent |-> notifications_sent]

\* The process returns from monitor_posts and ends.
Return ==
    /\ pc' = "exited"
    /\ exit_code' = Some(0)

\* ----------------------------------------------------------------- actions
\* The scheduler starts the script with WEBHOOK_URL = e.
Start(e) ==
    /\ pc \in {"off", "exited"}
    /\ prev' = IF pc = "exited" /\ html_content = Some(board) /\ began = clock
               THEN Some(Summary) ELSE None
    /\ environ' = e
    /\ began' = clock
    /\ pc' = "main"
    /\ webhook_url' = None
    /\ html_content' = None
    /\ rows' = << >>
    /\ row_i' = 1
    /\ posts' = << >>
    /\ origin' = << >>
    /\ post_i' = 1
    /\ matched_keyword' = None
    /\ notifications_sent' = 0
    /\ today_posts_count' = 0
    /\ exit_code' = None
    /\ entered' = FALSE
    /\ gets' = 0
    /\ parsed' = FALSE
    /\ checked' = << >>
    /\ matched' = << >>
    /\ posted' = << >>
    /\ UNCHANGED envVars

\* The __main__ block up to the call of monitor_posts.
Main ==
    /\ pc = "main"
    /\ IF ~Truthy(environ)
       THEN /\ pc' = "exited"
            /\ exit_code' = Some(1)
            /\ UNCHANGED <<webhook_url, entered>>
       ELSE /\ webhook_url' = environ
            /\ entered' = TRUE
            /\ pc' = "fetch"
            /\ UNCHANGED exit_code
    /\ UNCHANGED <<envVars, environ, prev, began, html_content, rows, row_i, posts, origin,
                   post_i, matched_keyword, notifications_sent, today_posts_count, gets,
                   parsed, checked, matched, posted>>

\* A fetch step without "if not html_content: return".
AfterFetchNoReturn(text) ==
    /\ gets' = gets + 1
    /\ html_content' = text
    /\ pc' = "parse"
    /\ UNCHANGED <<envVars, environ, prev, began, webhook_url, rows, row_i, posts, origin,
                   post_i, matched_keyword, notifications_sent, today_posts_count, entered,
                   parsed, checked, matched, posted, exit_code>>

\* fetch_board_content returns text, then "if not html_content: return".
AfterFetch(text) ==
    /\ gets' = gets + 1
    /\ html_content' = text
    /\ IF ~HasContent(text)
       THEN Return
       ELSE pc' = "parse" /\ UNCHANGED exit_code
    /\ UNCHANGED <<envVars, environ, prev, began, webhook_url, rows, row_i, posts, origin,
                   post_i, matched_keyword, notifications_sent, today_posts_count, entered,
                   parsed, checked, matched, posted>>

\* The GET answers 200.
FetchOK == pc = "fetch" /\ AfterFetch(Some(board))

\* The GET answers another status.
FetchHTTPError == pc = "fetch" /\ AfterFetch(None)

\* The GET raises (DNS, refused, timeout).
FetchException == pc = "fetch" /\ AfterFetch(None)

\* parse_board_posts up to "for row in rows".
ParseBegin ==
    /\ pc = "parse"
    /\ parsed' = TRUE
    /\ rows' = IF ~HasContent(html_content) THEN << >> ELSE CandidateRows(html_content[1])
    /\ row_i' = 1
    /\ posts' = << >>
    /\ origin' = << >>
    /\ pc' = "rows"
    /\ UNCHANGED <<envVars, environ, prev, began, webhook_url, html_content, post_i,
                   matched_keyword, notifications_sent, today_posts_count, exit_code,
                   entered, gets, checked, matched, posted>>

\* One iteration of "for row in rows".
ParseRowStep ==
    /\ pc = "rows"
    /\ row_i <= Len(rows)
    /\ posts' = posts \o ParseRow(rows[row_i].cells, clock)
    /\ origin' = origin \o [k \in 1..Len(ParseRow(rows[row_i].cells, clock)) |->
                                [row |-> row_i, day |-> clock]]
    /\ row_i' = row_i + 1
    /\ UNCHANGED <<envVars, pc, environ, prev, began, webhook_url, html_content, rows,
                   post_i, matched_keyword, notifications_sent, today_posts_count,
                   exit_code, entered, gets, parsed, checked, matched, posted>>

\* parse_board_posts returns, then "if not posts: return".
ParseEnd ==
    /\ pc = "rows"
    /\ row_i > Len(rows)
    /\ IF posts = << >>
       THEN Return /\ UNCHANGED post_i
       ELSE pc' = "loop" /\ post_i' = 1 /\ UNCHANGED exit_code
    /\ UNCHANGED <<envVars, environ, prev, began, webhook_url, html_content, rows,
                   row_i, posts, origin, matched_keyword, notifications_sent, today_posts_count,
                   entered, gets, parsed, checked, matched, posted>>

\* An iteration that also skips a post the previous run has notified.
LoopCheckDedup ==
    /\ pc = "loop"
    /\ post_i <= Len(posts)
    /\ checked' = Append(checked, [i |-> post_i, day |-> clock])
    /\ IF \/ ~is_today_post(posts[post_i].date, clock)
          \/ (prev # None /\ \E k \in 1..Len(prev[1].notified) :
                                prev[1].notified[k].title = posts[post_i].title)
       THEN /\ post_i' = post_i + 1
            /\ UNCHANGED <<pc, today_posts_count, matched, matched_keyword>>
       ELSE /\ today_posts_count' = today_posts_count + 1
            /\ LET found == check_keywords(posts[post_i].title)
               IN  /\ matched' = Append(matched, [i |-> post_i, has |-> found[1],
                                                  keyword |-> found[2]])
                   /\ matched_keyword' = found[2]
                   /\ IF found[1]
                      THEN pc' = "send" /\ UNCHANGED post_i
                      ELSE post_i' = post_i + 1 /\ UNCHANGED pc
    /\ UNCHANGED <<envVars, environ, prev, began, webhook_url, html_content, rows,
                   row_i, posts, origin, notifications_sent, exit_code, entered, gets, parsed,
                   posted>>

\* One iteration of "for post in posts" up to the call of send_webhook.
LoopCheck ==
    /\ pc = "loop"
    /\ post_i <= Len(posts)
    /\ checked' = Append(checked, [i |-> post_i, day |-> clock])
    /\ IF ~is_today_post(posts[post_i].date, clock)
       THEN /\ post_i' = post_i + 1
            /\ UNCHANGED <<pc, today_posts_count, matched, matched_keyword>>
       ELSE /\ today_posts_count' = today_posts_count + 1
            /\ LET found == check_keywords(posts[post_i].title)
               IN  /\ matched' = Append(matched, [i |-> post_i, has |-> found[1],
                                                  keyword |-> found[2]])
                   /\ matched_keyword' = found[2]
                   /\ IF found[1]
                      THEN pc' = "send" /\ UNCHANGED post_i
                      ELSE post_i' = post_i + 1 /\ UNCHANGED pc
    /\ UNCHANGED <<envVars, environ, prev, began, webhook_url, html_content, rows,
                   row_i, posts, origin, notifications_sent, exit_code, entered, gets, parsed,
                   posted>>

\* A send step that leaves the loop when the POST is not answered 200.
AfterSendAbortOnFailure(outcome) ==
    /\ posted' = Append(posted, [i |-> post_i,
                                 url |-> webhook_url[1],
                                 payload |-> Payload(posts[post_i], matched_keyword[1], clock)])
    /\ notifications_sent' = IF outcome = "200" THEN notifications_sent + 1
                             ELSE notifications_sent
    /\ post_i' = post_i + 1
    /\ IF outcome = "200" THEN pc' = "loop" /\ UNCHANGED exit_code ELSE Return
    /\ UNCHANGED <<envVars, environ, prev, began, webhook_url, html_content, rows,
                   row_i, posts, origin, matched_keyword, today_posts_count, entered,
                   gets, parsed, checked, matched>>

\* send_webhook with the given outcome of requests.post, then the rest of the iteration.
AfterSend(outcome) ==
    /\ posted' = Append(posted, [i |-> post_i,
                                 url |-> webhook_url[1],
                                 payload |-> Payload(posts[post_i], matched_keyword[1], clock)])
    /\ notifications_sent' = IF outcome = "200" THEN notifications_sent + 1
                             ELSE notifications_sent
    /\ post_i' = post_i + 1
    /\ pc' = "loop"
    /\ UNCHANGED <<envVars, environ, prev, began, webhook_url, html_content, rows,
                   row_i, posts, origin, matched_keyword, today_posts_count, exit_code, entered,
                   gets, parsed, checked, matched>>

\* The POST answers 200.
SendOK == pc = "send" /\ AfterSend("200")

\* The POST answers another status.
SendHTTPError == pc = "send" /\ AfterSend("status")

\* The POST raises.
SendException == pc = "send" /\ AfterSend("exception")

\* The loop is over: the summary is printed and monitor_posts returns.
LoopEnd ==
    /\ pc = "loop"
    /\ post_i > Len(posts)
    /\ Return
    /\ UNCHANGED <<envVars, environ, prev, began, webhook_url, html_content, rows,
                   row_i, posts, origin, post_i, matched_keyword, notifications_sent,
                   today_posts_count, entered, gets, parsed, checked, matched, posted>>

\* Midnight passes.
Tick ==
    /\ clock < MaxDays
    /\ clock' = clock + 1
    /\ UNCHANGED <<pc, board, environ, prev, began, procVars, arg, ret>>

\* The board publishes the announcement r on top, between two runs of the script.
BoardUpdate(r) ==
    /\ pc \in {"off", "exited"}
    /\ ~board.blank
    /\ Len(board.rows) < MaxRows
    /\ board' = [board EXCEPT !.rows = <<r>> \o board.rows]
    /\ UNCHANGED <<pc, clock, environ, prev, began, procVars, arg, ret>>

Next ==
    \/ \E e \in EnvValues : Start(e)
    \/ Main
    \/ FetchOK
    \/ FetchHTTPError
    \/ FetchException
    \/ ParseBegin
    \/ ParseRowStep
    \/ ParseEnd
    \/ LoopCheck
    \/ SendOK
    \/ SendHTTPError
    \/ SendException
    \/ LoopEnd
    \/ Tick
    \/ \E r \in BoardRows : BoardUpdate(r)

Spec == Init /\ [][Next]_vars

\* ------------------------------------------------- functions on their own
\* Characters generated titles are made of: the syllables of 장애인, 집회, 시위.
TitleChars == {51109, 50528, 51064, 51665, 54924, 49884, 50948}

\* Titles handed to check_keywords.
Titles ==
    SeqsUpTo(TitleChars, MaxTitleLen)
        \cup {kwSpecific, titleToday, titlePlain, titleGuide, titleRallyProtest, titleUpper,
              txtGuidePadded, txtProtestDash}

\* Cells generated rows are made of.
RowCells ==
    { PlainCell(txtIndex),
      PlainCell(txtNumber),
      PlainCell(txtGuidePadded),
      PlainCell(txtDateDash),
      PlainCell(txtDateShort),
      [frags |-> <<txtDateHead, txtBlank, txtDateShort>>, href |-> None],
      [frags |-> <<txtEvent>>, href |-> Some(hrefRelative)],
      [frags |-> <<txtProtestDash>>, href |-> Some(hrefAbsolute)],
      [frags |-> <<txtEvent>>, href |-> Some(<< >>)] }

\* The row with cells "1", "장애인 집회시위 안내", "2024-05-01" and no anchor.
LeadRow == InTable(<<PlainCell(txtIndex), PlainCell(titleGuide), PlainCell(txtDateDash)>>)

\* A row with a title and no date-like cell.
TrailRow ==
    InTable(<<PlainCell(txtIndex), PlainCell(txtShort), PlainCell(titlePlain)>>)

\* Response bodies handed to parse_board_posts: a generated row, inside or
\* outside the table, between LeadRow and TrailRow; no content.
Documents ==
    {None, Some([blank |-> TRUE, rows |-> << >>])}
        \cup {Some([blank |-> FALSE,
                    rows |-> <<LeadRow, [sel |-> sel, cells |-> cells], TrailRow>>]) :
                sel \in {{}, {"table tr", "tbody tr"}}, cells \in SeqsUpTo(RowCells, MaxCells)}

\* The state of the script's variables while a function is called on its own.
Parked ==
    /\ board = [blank |-> TRUE, rows |-> << >>]
    /\ environ = None
    /\ prev = None
    /\ began = 0
    /\ webhook_url = None
    /\ html_content = None
    /\ rows = << >>
    /\ row_i = 1
    /\ posts = << >>
    /\ origin = << >>
    /\ post_i = 1
    /\ matched_keyword = None
    /\ notifications_sent = 0
    /\ today_posts_count = 0
    /\ exit_code = None
    /\ entered = FALSE
    /\ gets = 0
    /\ parsed = FALSE
    /\ checked = << >>
    /\ matched = << >>
    /\ posted = << >>

scriptVars == <<board, environ, prev, began, procVars>>

InitKeywords ==
    /\ pc = "call"
    /\ clock = 0
    /\ arg \in Titles
    /\ ret = << >>
    /\ Parked

\* check_keywords(arg) is called and returns.
CallCheckKeywords ==
    /\ pc = "call"
    /\ ret' = check_keywords(arg)
    /\ pc' = "returned"
    /\ UNCHANGED <<clock, arg, scriptVars>>

NextKeywords == CallCheckKeywords

SpecKeywords == InitKeywords /\ [][NextKeywords]_vars

InitParse ==
    /\ pc = "call"
    /\ clock \in 0..MaxDays
    /\ arg \in Documents
    /\ ret = << >>
    /\ Parked

\* parse_board_posts(arg) is called and returns.
CallParseBoardPosts ==
    /\ pc = "call"
    /\ ret' = parse_board_posts(arg, clock)
    /\ pc' = "returned"
    /\ UNCHANGED <<clock, arg, scriptVars>>

NextParse == CallParseBoardPosts

SpecParse == InitParse /\ [][NextParse]_vars

\* ------------------------------------------------------------ properties
\* The positions in the keyword list of the keywords that occur in the title,
\* compared case-insensitively.
KeywordHits(title) ==
    {k \in 1..Len(keywords) : Contains(Lower(title), Lower(keywords[k]))}

\* C5: check_keywords returns (True, k) for the first keyword k of the list
\* that is a case-insensitive substring of the title, and (False, None) exactly
\* when no keyword is a substring.
C5_FirstKeywordInListOrder ==
    pc = "returned" =>
        LET hits == KeywordHits(arg)
        IN  /\ (ret = <<FALSE, None>>) <=> (hits = {})
            /\ hits # {} =>
                 \E k \in hits : (\A j \in hits : k <= j) /\ ret = <<TRUE, Some(keywords[k])>>

\* A title in which several keywords occur has been matched.
C5_Witness == pc = "returned" /\ Cardinality(KeywordHits(arg)) >= 2 /\ ret[1]

\* C6 as stated: check_keywords("오늘의 장애인 집회 관련 공지") returns
\* (True, "집회") and check_keywords("일반 공지사항") returns (False, None).
C6_AsStated ==
    pc = "returned" =>
        /\ arg = titleToday => ret = <<TRUE, Some(kwRally)>>
        /\ arg = titlePlain => ret = <<FALSE, None>>

\* C6 amended: check_keywords("오늘의 장애인 집회 관련 공지") returns
\* (True, "장애인"), the keyword that comes before "집회" in the list, and
\* check_keywords("일반 공지사항") returns (False, None).
C6_ExampleTitles ==
    pc = "returned" =>
        /\ arg = titleToday => ret = <<TRUE, Some(kwDisabled)>>
        /\ arg = titlePlain => ret = <<FALSE, None>>

\* check_keywords("오늘의 장애인 집회 관련 공지") has returned.
C6_Witness == pc = "returned" /\ arg = titleToday /\ ret[1]

\* The text of a cell is longer than 5 characters and not all digits.
TitleLike(cell) ==
    LET t == get_text(cell)
    IN  Len(t) > 5 /\ ~(\A i \in 1..Len(t) : t[i] \in 48..57)

\* The text of a cell has one of - . / and at least 8 characters.
DateLike(cell) ==
    LET t == get_text(cell)
    IN  Len(t) >= 8 /\ \E i \in 1..Len(t) : t[i] \in {45, 46, 47}

\* The row has at least 3 cells, one of them title-like.
YieldsPost(cells) == Len(cells) >= 3 /\ \E i \in 1..Len(cells) : TitleLike(cells[i])

\* The text of the first title-like cell.
FirstTitle(cells) ==
    get_text(cells[CHOOSE i \in 1..Len(cells) :
                     TitleLike(cells[i]) /\ \A j \in 1..(i - 1) : ~TitleLike(cells[j])])

\* The text of the last date-like cell, today's date when there is none.
LastDate(cells, n) ==
    IF \E i \in 1..Len(cells) : DateLike(cells[i])
    THEN get_text(cells[CHOOSE i \in 1..Len(cells) :
                          DateLike(cells[i]) /\ \A j \in (i + 1)..Len(cells) : ~DateLike(cells[j])])
    ELSE Today(n)

RECURSIVE TitlesOfRows(_, _)
\* The titles of the rows that yield a post, from the i-th row on.
TitlesOfRows(rs, i) ==
    IF i > Len(rs) THEN << >>
    ELSE (IF YieldsPost(rs[i].cells) THEN <<FirstTitle(rs[i].cells)>> ELSE << >>)
            \o TitlesOfRows(rs, i + 1)

\* C8: every candidate row yields at most one post, none when it has fewer
\* than 3 cells or no title-like cell; the post's title is the text of the
\* first title-like cell and is not empty; the rows after a skipped row are
\* still parsed.
C8_OnePostPerTitledRow ==
    (pc = "returned" /\ HasContent(arg)) =>
        /\ [k \in 1..Len(ret) |-> ret[k].title] = TitlesOfRows(CandidateRows(arg[1]), 1)
        /\ \A k \in 1..Len(ret) : ret[k].title # << >>

\* A candidate row of 3 cells or more was skipped and the row after it parsed.
C8_Witness ==
    /\ pc = "returned"
    /\ HasContent(arg)
    /\ Len(CandidateRows(arg[1])) = 3
    /\ Len(CandidateRows(arg[1])[2].cells) >= 3
    /\ Len(ret) = 2
    /\ ret[2].title = titlePlain

\* C9: the date of a post is the text of the last date-like cell of its row,
\* today's date in YYYY-MM-DD form when the row has none; the row with cells
\* "1", "장애인 집회시위 안내", "2024-05-01" and no anchor yields
\* Post(title="장애인 집회시위 안내", date="2024-05-01", link="").
C9_DateFromLastDateCell ==
    (pc = "returned" /\ HasContent(arg)) =>
        LET rs == CandidateRows(arg[1])
        IN  /\ ret[1] = [title |-> titleGuide, date |-> txtDateDash, link |-> << >>]
            /\ ret[Len(ret)].date = Today(clock)
            /\ (Len(rs) = 3 /\ Len(ret) = 3) => ret[2].date = LastDate(rs[2].cells, clock)

\* A row with two different date-like cells has yielded a post.
C9_Witness ==
    /\ pc = "returned"
    /\ HasContent(arg)
    /\ Len(ret) = 3
    /\ LET cells == CandidateRows(arg[1])[2].cells
       IN  \E i, j \in 1..Len(cells) :
              i < j /\ DateLike(cells[i]) /\ DateLike(cells[j])
                    /\ get_text(cells[i]) # get_text(cells[j])

\* The i-th post was dated today when is_today_post looked at it.
DatedToday(j) == Contains(posts[checked[j].i].date, Today(checked[j].day))

\* The i-th post was handed to check_keywords.
WasMatched(i) == \E m \in 1..Len(matched) : matched[m].i = i

\* The number of POSTs issued for the i-th post.
PostsFor(i) == Cardinality({k \in 1..Len(posted) : posted[k].i = i})

\* C1: a POST is issued for a post only if is_today_post found today's date
\* (YYYY-MM-DD) in its date string and check_keywords reported a match; a
\* post that fails is_today_post is handed to neither check_keywords nor
\* send_webhook and is not counted in today_posts_count.
C1_NotifyOnlyTodayWithKeyword ==
    /\ \A k \in 1..Len(posted) :
          /\ \E j \in 1..Len(checked) : checked[j].i = posted[k].i /\ DatedToday(j)
          /\ \E m \in 1..Len(matched) : matched[m].i = posted[k].i /\ matched[m].has
    /\ \A j \in 1..Len(checked) :
          ~DatedToday(j) => ~WasMatched(checked[j].i) /\ PostsFor(checked[j].i) = 0
    /\ today_posts_count = Cardinality({j \in 1..Len(checked) : DatedToday(j)})

\* A run has notified one post and skipped another that is not dated today.
C1_Witness ==
    /\ pc = "exited"
    /\ Len(posted) >= 1
    /\ \E j \in 1..Len(checked) : ~DatedToday(j)

\* The run has gone through the whole loop over the parsed posts.
LoopDone == pc = "exited" /\ parsed /\ posts # << >>

\* C2: after a successful fetch and a non-empty parse, at the end of the run
\* exactly one POST has been attempted for every parsed post that is dated
\* today and has a keyword in its title, carrying that post and the first
\* keyword found, and none for any other post, whatever the outcomes of the
\* earlier POSTs.
C2_OnePostPerMatchAtEnd ==
    LoopDone =>
        /\ Len(checked) = Len(posts)
        /\ \A i \in 1..Len(posts) :
              /\ checked[i].i = i
              /\ PostsFor(i) = IF DatedToday(i) /\ KeywordHits(posts[i].title) # {}
                               THEN 1 ELSE 0
        /\ \A k \in 1..Len(posted) :
              LET post == posts[posted[k].i]
                  hits == KeywordHits(post.title)
              IN  /\ posted[k].payload.title = post.title
                  /\ posted[k].payload.date = post.date
                  /\ posted[k].payload.link = post.link
                  /\ \E h \in hits : (\A g \in hits : h <= g)
                                        /\ posted[k].payload.keyword = keywords[h]

\* Two POSTs were attempted in one run and none was answered 200.
C2_Witness == LoopDone /\ Len(posted) = 2 /\ notifications_sent = 0

\* C3: when the fetch fails, or the body is empty, or the parser yields no
\* post, the run makes no POST and ends with exit code 0; after a failed
\* fetch parse_board_posts is not called.
C3_NoPostWithoutPosts ==
    (pc = "exited" /\ entered /\ (~HasContent(html_content) \/ posts = << >>)) =>
        /\ posted = << >>
        /\ exit_code = Some(0)
        /\ html_content = None => ~parsed

\* A run whose GET failed has ended.
C3_Witness == pc = "exited" /\ entered /\ gets = 1 /\ html_content = None

\* C4: with WEBHOOK_URL unset or empty the process exits with code 1 before
\* any GET or POST and without entering monitor_posts; with WEBHOOK_URL set it
\* never exits with code 1.
C4_MissingWebhookIsFatal ==
    pc \notin {"off", "main"} =>
        IF environ = None \/ environ = Some(<< >>)
        THEN pc = "exited" /\ exit_code = Some(1) /\ gets = 0 /\ posted = << >> /\ ~entered
        ELSE exit_code # Some(1)

\* A process started with WEBHOOK_URL set to the empty string has exited.
C4_Witness == pc = "exited" /\ environ = Some(<< >>) /\ exit_code = Some(1)

\* The previous run and this one fetched the same body on the same date.
SameBoardSameDay ==
    /\ pc = "exited"
    /\ prev # None
    /\ prev[1].html_content # None
    /\ html_content = prev[1].html_content
    /\ prev[1].began = clock

\* C7: two consecutive runs on the same date that fetch the same board
\* notify the same posts with the same keywords, whether or not the POSTs of
\* the first run succeeded.
C7_RunsRepeatNotifications == SameBoardSameDay => Notified(posted) = prev[1].notified

\* A run has repeated the notifications of a run none of whose POSTs succeeded.
C7_Witness ==
    /\ SameBoardSameDay
    /\ prev[1].notified # << >>
    /\ prev[1].sent = 0
    /\ Len(posted) = Len(prev[1].notified)

\* The row the i-th post came from has no date-like cell.
FromUndatedRow(i) ==
    \A c \in 1..Len(rows[origin[i].row].cells) : ~DateLike(rows[origin[i].row].cells[c])

\* The date of the i-th post is today's date written with . or /.
DottedToday(j) ==
    posts[checked[j].i].date \in
        {FormatDate(DateOf(checked[j].day), 46), FormatDate(DateOf(checked[j].day), 47)}

\* C10: a post from a row without a date-like cell, filtered on the date it
\* was parsed, passes is_today_post, and is notified if its title has a
\* keyword; a post whose date is today's date written with . or / does not
\* pass is_today_post and is not notified.
C10_DefaultDateIsToday ==
    /\ LoopDone =>
          \A i \in 1..Len(posts) :
             (FromUndatedRow(i) /\ origin[i].day = checked[i].day) =>
                 /\ posts[i].date = Today(origin[i].day)
                 /\ WasMatched(i)
                 /\ KeywordHits(posts[i].title) # {} => PostsFor(i) = 1
    /\ \A j \in 1..Len(checked) :
          DottedToday(j) => ~WasMatched(checked[j].i) /\ PostsFor(checked[j].i) = 0

\* A run has notified a post from an undated row and passed over a post
\* dated today with dots.
C10_Witness ==
    /\ LoopDone
    /\ \E i \in 1..Len(posts) : FromUndatedRow(i) /\ PostsFor(i) = 1
    /\ \E j \in 1..Len(checked) : DottedToday(j)

====
